---- MODULE Spec2Model ----
(***************************************************************************)
(* Signal processors of django_elasticsearch_dsl/signals.py.               *)
(*                                                                         *)
(* One signal processor (RealTimeSignalProcessor or CelerySignalProcessor) *)
(* is attached to the model signals of a small data store.  The store has  *)
(* two tables, Car and Ad, joined by a many-to-many relation; SportsCar is *)
(* a proxy class of Car declared in another app.  Saving, deleting and     *)
(* changing the relation send the signals the processor listens to; the    *)
(* Celery variant defers saves to tasks that workers execute later.        *)
(***************************************************************************)
EXTENDS Integers, Sequences, FiniteSets, Bags, TLC

VARIABLES
    variant,    \* class of the processor: "realtime" or "celery"
    registry,   \* concrete models for which `model in registry` is true
    receivers,  \* signal -> sequence of connected handlers
    lifecycle,  \* the last of setup() / teardown() that was called
    exists,     \* store: row -> whether the row is in its table
    links,      \* store: rows of the many-to-many through table
    index,      \* search index: row -> document
    queue,      \* task queue: bag of task messages
    op,         \* store operation in flight between its pre and post signal
    last        \* what the last step called: handlers, index calls, tasks

vars == <<variant, registry, receivers, lifecycle, exists, links, index,
          queue, op, last>>

(***************************************************************************)
(* Bounds                                                                  *)
(***************************************************************************)
MaxQueue == 2

(***************************************************************************)
(* The data store: classes, rows, relations                                *)
(***************************************************************************)
\* the primary keys in use: each table holds at most the row with this key
PKs == {7}

Classes == {"Car", "SportsCar", "Ad"}

ConcreteModels == {"Car", "Ad"}

\* instance._meta.concrete_model.__name__
concrete_model(cls) == IF cls = "SportsCar" THEN "Car" ELSE cls

\* instance._meta.app_label
app_label_of(cls) ==
    CASE cls = "Car" -> "cars"
      [] cls = "SportsCar" -> "sports"
      [] cls = "Ad" -> "ads"

Rows == [model : ConcreteModels, pk : PKs]

Instances == [cls : Classes, pk : PKs]

Row(inst) == [model |-> concrete_model(inst.cls), pk |-> inst.pk]

Store(ex, ln) == [exists |-> ex, links |-> ln]

\* the rows the relation joins to `row`, as the store has them now
Related(st, row) ==
    {r \in Rows : st.exists[r] /\ (<<row, r>> \in st.links \/ <<r, row>> \in st.links)}

LinksOf(ln, row) == {l \in ln : l[1] = row \/ l[2] = row}

PairsOf(row, targets) ==
    {IF row.model = "Car" THEN <<row, t>> ELSE <<t, row>> : t \in targets}

OtherSide(row) == {r \in Rows : r.model # row.model}

(***************************************************************************)
(* The search index behind `registry`                                      *)
(***************************************************************************)
NoDoc == [on |-> FALSE, rel |-> {}]

DocOf(st, row) == [on |-> TRUE, rel |-> Related(st, row)]

EmptyIndex == [r \in Rows |-> NoDoc]

IndexOps == {"update", "update_related", "delete", "delete_related"}

\* The running call: the index and queue it works on, what it has called so
\* far, and the exception raised, if any.  A raised exception ends the call.
Ctx(idx, q) ==
    [index |-> idx, queue |-> q, handlers |-> <<>>, calls |-> <<>>,
     enq |-> <<>>, err |-> "none"]

Enter(ctx, handler) ==
    IF ctx.err # "none" THEN ctx
    ELSE [ctx EXCEPT !.handlers = Append(@, handler)]

\* one call of a registry method: recorded, then it fails or writes the index
RegistryCall(ctx, name, inst, raise_on_error, st, fail, written) ==
    IF ctx.err # "none" THEN ctx
    ELSE LET c == [op |-> name, inst |-> inst,
                   raise_on_error |-> raise_on_error,
                   present |-> st.exists[Row(inst)],
                   rels |-> Related(st, Row(inst)),
                   failed |-> (fail = name)]
         IN  IF fail = name
             THEN [ctx EXCEPT !.calls = Append(@, c),
                              !.err = IF raise_on_error THEN "IndexError" ELSE "none"]
             ELSE [ctx EXCEPT !.calls = Append(@, c), !.index = written]

registry_update(ctx, inst, st, fail) ==
    RegistryCall(ctx, "update", inst, TRUE, st, fail,
        [ctx.index EXCEPT ![Row(inst)] = DocOf(st, Row(inst))])

registry_update_related(ctx, inst, st, fail) ==
    RegistryCall(ctx, "update_related", inst, TRUE, st, fail,
        [r \in Rows |-> IF r \in Related(st, Row(inst))
                        THEN DocOf(st, r) ELSE ctx.index[r]])

registry_delete_related(ctx, inst, st, fail) ==
    RegistryCall(ctx, "delete_related", inst, TRUE, st, fail,
        [r \in Rows |-> IF r \in Related(st, Row(inst))
                        THEN [on |-> TRUE, rel |-> Related(st, r) \ {Row(inst)}]
                        ELSE ctx.index[r]])

registry_delete(ctx, inst, raise_on_error, st, fail) ==
    RegistryCall(ctx, "delete", inst, raise_on_error, st, fail,
        [ctx.index EXCEPT ![Row(inst)] = NoDoc])

\* `model in registry`
registry_contains(reg, model) == model \in reg

(***************************************************************************)
(* The task queue                                                          *)
(***************************************************************************)
TaskNames == {"registry_update_task", "registry_update_related_task"}

Task(name, pk, app_label, model_name) ==
    [task |-> name, pk |-> pk, app_label |-> app_label, model_name |-> model_name]

\* task.delay(*args): one more message in the queue
delay(ctx, t) ==
    IF ctx.err # "none" THEN ctx
    ELSE [ctx EXCEPT !.queue = @ (+) SetToBag({t}), !.enq = Append(@, t)]

(***************************************************************************)
(* BaseSignalProcessor                                                     *)
(***************************************************************************)
\* handle_save with its two registry calls in the other order
BaseSignalProcessor_handle_save_swapped(ctx, inst, st, fail) ==
    registry_update(
        registry_update_related(Enter(ctx, "handle_save"), inst, st, fail),
        inst, st, fail)

BaseSignalProcessor_handle_save(ctx, inst, st, fail) ==
    registry_update_related(
        registry_update(Enter(ctx, "handle_save"), inst, st, fail),
        inst, st, fail)

handle_pre_delete(ctx, inst, st, fail) ==
    registry_delete_related(Enter(ctx, "handle_pre_delete"), inst, st, fail)

\* handle_delete that lets the index raise
handle_delete_raising(ctx, inst, st, fail) ==
    registry_delete(Enter(ctx, "handle_delete"), inst, TRUE, st, fail)

\* handle_delete that defers the delete to a task
handle_delete_deferred(ctx, inst, st, fail) ==
    delay(Enter(ctx, "handle_delete"),
          Task("registry_delete_task", inst.pk, app_label_of(inst.cls),
               concrete_model(inst.cls)))

handle_delete(ctx, inst, st, fail) ==
    registry_delete(Enter(ctx, "handle_delete"), inst, FALSE, st, fail)

(***************************************************************************)
(* CelerySignalProcessor                                                   *)
(***************************************************************************)
\* handle_save that forgets the related task
CelerySignalProcessor_handle_save_one_task(ctx, inst, reg) ==
    IF ~registry_contains(reg, concrete_model(inst.cls))
    THEN delay(Enter(ctx, "handle_save"),
               Task("registry_update_task", inst.pk, app_label_of(inst.cls),
                    concrete_model(inst.cls)))
    ELSE Enter(ctx, "handle_save")

\* handle_save without the registry test
CelerySignalProcessor_handle_save_always(ctx, inst, reg) ==
    delay(delay(Enter(ctx, "handle_save"),
                Task("registry_update_task", inst.pk, app_label_of(inst.cls),
                     concrete_model(inst.cls))),
          Task("registry_update_related_task", inst.pk, app_label_of(inst.cls),
               concrete_model(inst.cls)))

CelerySignalProcessor_handle_save(ctx, inst, reg) ==
    LET pk == inst.pk
        app_label == app_label_of(inst.cls)
        model_name == concrete_model(inst.cls)
        entered == Enter(ctx, "handle_save")
    IN  IF ~registry_contains(reg, concrete_model(inst.cls))
        THEN delay(delay(entered,
                         Task("registry_update_task", pk, app_label, model_name)),
                   Task("registry_update_related_task", pk, app_label, model_name))
        ELSE entered

\* apps.get_model(app_label, model_name): the classes it finds; none is a
\* LookupError
get_model(app_label, model_name) ==
    {c \in Classes : app_label_of(c) = app_label /\ c = model_name}

\* model.objects.get(pk=pk): a missing row raises DoesNotExist
objects_get(ctx, instance, st) ==
    IF ctx.err # "none" THEN ctx
    ELSE IF ~st.exists[Row(instance)]
         THEN [ctx EXCEPT !.err = "DoesNotExist"]
         ELSE ctx

\* the task with DoesNotExist swallowed like LookupError
registry_update_task_swallowing(ctx, pk, app_label, model_name, st, fail) ==
    LET found == get_model(app_label, model_name)
        entered == Enter(ctx, "registry_update_task")
        instance == [cls |-> CHOOSE m \in found : TRUE, pk |-> pk]
    IN  IF found = {} \/ ~st.exists[Row(instance)] THEN entered
        ELSE registry_update(entered, instance, st, fail)

\* the task calling the wrong registry method
registry_update_task_wrong_method(ctx, pk, app_label, model_name, st, fail) ==
    LET found == get_model(app_label, model_name)
        entered == Enter(ctx, "registry_update_task")
        instance == [cls |-> CHOOSE m \in found : TRUE, pk |-> pk]
    IN  IF found = {} THEN entered
        ELSE registry_delete_related(objects_get(entered, instance, st),
                                     instance, st, fail)

registry_update_task(ctx, pk, app_label, model_name, st, fail) ==
    LET found == get_model(app_label, model_name)
        entered == Enter(ctx, "registry_update_task")
        instance == [cls |-> CHOOSE m \in found : TRUE, pk |-> pk]
    IN  IF found = {} THEN entered
        ELSE registry_update(objects_get(entered, instance, st), instance, st, fail)

registry_update_related_task(ctx, pk, app_label, model_name, st, fail) ==
    LET found == get_model(app_label, model_name)
        entered == Enter(ctx, "registry_update_related_task")
        instance == [cls |-> CHOOSE m \in found : TRUE, pk |-> pk]
    IN  IF found = {} THEN entered
        ELSE registry_update_related(objects_get(entered, instance, st),
                                     instance, st, fail)

\* a worker runs the task a message names
RunTask(ctx, t, st, fail) ==
    IF t.task = "registry_update_task"
    THEN registry_update_task(ctx, t.pk, t.app_label, t.model_name, st, fail)
    ELSE registry_update_related_task(ctx, t.pk, t.app_label, t.model_name, st, fail)

(***************************************************************************)
(* Method resolution: CelerySignalProcessor overrides handle_save only     *)
(***************************************************************************)
handle_save(v, reg, ctx, inst, st, fail) ==
    IF v = "celery"
    THEN CelerySignalProcessor_handle_save(ctx, inst, reg)
    ELSE BaseSignalProcessor_handle_save(ctx, inst, st, fail)

\* handle_m2m_changed with post_clear missing from the first tuple
handle_m2m_changed_no_post_clear(v, reg, ctx, inst, action, st, fail) ==
    LET entered == Enter(ctx, "handle_m2m_changed")
    IN  IF action \in {"post_add", "post_remove"}
        THEN handle_save(v, reg, entered, inst, st, fail)
        ELSE IF action \in {"pre_remove", "pre_clear"}
             THEN handle_pre_delete(entered, inst, st, fail)
             ELSE entered

handle_m2m_changed(v, reg, ctx, inst, action, st, fail) ==
    LET entered == Enter(ctx, "handle_m2m_changed")
    IN  IF action \in {"post_add", "post_remove", "post_clear"}
        THEN handle_save(v, reg, entered, inst, st, fail)
        ELSE IF action \in {"pre_remove", "pre_clear"}
             THEN handle_pre_delete(entered, inst, st, fail)
             ELSE entered

(***************************************************************************)
(* DjangoSignalsMixin and the signals                                      *)
(***************************************************************************)
Signals == {"post_save", "post_delete", "m2m_changed", "pre_delete"}

Handlers == {"handle_save", "handle_delete", "handle_m2m_changed", "handle_pre_delete"}

NoReceivers == [s \in Signals |-> <<>>]

InSeq(x, seq) == \E i \in 1..Len(seq) : seq[i] = x

\* signal.connect(receiver): a receiver already connected is not added again
connect(recv, signal, handler) ==
    IF InSeq(handler, recv[signal]) THEN recv
    ELSE [recv EXCEPT ![signal] = Append(@, handler)]

\* signal.disconnect(receiver): no error when the receiver is not connected
disconnect(recv, signal, handler) ==
    LET Other(h) == h # handler
    IN  [recv EXCEPT ![signal] = SelectSeq(@, Other)]

\* setup with handle_pre_delete connected to post_delete
DjangoSignalsMixin_setup_late(recv) ==
    connect(connect(connect(connect(recv,
        "post_save", "handle_save"),
        "post_delete", "handle_delete"),
        "m2m_changed", "handle_m2m_changed"),
        "post_delete", "handle_pre_delete")

DjangoSignalsMixin_setup(recv) ==
    connect(connect(connect(connect(recv,
        "post_save", "handle_save"),
        "post_delete", "handle_delete"),
        "m2m_changed", "handle_m2m_changed"),
        "pre_delete", "handle_pre_delete")

\* teardown that leaves handle_pre_delete connected
DjangoSignalsMixin_teardown_partial(recv) ==
    disconnect(disconnect(disconnect(recv,
        "post_save", "handle_save"),
        "post_delete", "handle_delete"),
        "m2m_changed", "handle_m2m_changed")

DjangoSignalsMixin_teardown(recv) ==
    disconnect(disconnect(disconnect(disconnect(recv,
        "post_save", "handle_save"),
        "post_delete", "handle_delete"),
        "m2m_changed", "handle_m2m_changed"),
        "pre_delete", "handle_pre_delete")

\* the bound method a receiver names, called with the signal's arguments
CallReceiver(handler, v, reg, ctx, inst, action, st, fail) ==
    CASE handler = "handle_save" -> handle_save(v, reg, ctx, inst, st, fail)
      [] handler = "handle_delete" -> handle_delete(ctx, inst, st, fail)
      [] handler = "handle_pre_delete" -> handle_pre_delete(ctx, inst, st, fail)
      [] handler = "handle_m2m_changed" ->
             handle_m2m_changed(v, reg, ctx, inst, action, st, fail)

\* signal.send(sender, instance=..., action=...): the receivers are called in
\* the order they were connected, and the first exception ends the send
RECURSIVE send(_, _, _, _, _, _, _, _)
send(recvs, v, reg, ctx, inst, action, st, fail) ==
    IF recvs = <<>> THEN ctx
    ELSE send(Tail(recvs), v, reg,
              CallReceiver(Head(recvs), v, reg, ctx, inst, action, st, fail),
              inst, action, st, fail)

(***************************************************************************)
(* State                                                                   *)
(***************************************************************************)
Idle == [kind |-> "idle", inst |-> [cls |-> "none", pk |-> 0], targets |-> {}]

NoInst == [cls |-> "none", pk |-> 0]

NoTask == Task("none", 0, "", "")

\* the index operation that fails during a step, if any
SaveFails == {"none", "update", "update_related"}

DeleteFails == {"none", "delete", "delete_related"}

\* the record of a step: which store operation or task it was, on what, and
\* what the calls it made did
Last(step, inst, action, targets, t, ctx, recvBefore, redelivered) ==
    [step |-> step, inst |-> inst, action |-> action, targets |-> targets, task |-> t,
     handlers |-> ctx.handlers, calls |-> ctx.calls, enq |-> ctx.enq,
     err |-> ctx.err, before |-> recvBefore, redelivered |-> redelivered]

\* BaseSignalProcessor.__init__ has called setup(); the store, the index and
\* the queue are empty
Init ==
    /\ variant \in {"realtime", "celery"}
    /\ registry \in SUBSET ConcreteModels
    /\ receivers = DjangoSignalsMixin_setup(NoReceivers)
    /\ lifecycle = "setup"
    /\ exists = [r \in Rows |-> FALSE]
    /\ links = {}
    /\ index = EmptyIndex
    /\ queue = EmptyBag
    /\ op = Idle
    /\ last = Last("init", NoInst, "", {}, NoTask, Ctx(EmptyIndex, EmptyBag),
                   NoReceivers, FALSE)

\* a step of the store: the calls of `ctx` have happened
Event(step, inst, action, targets, ctx) ==
    /\ BagCardinality(ctx.queue) <= MaxQueue
    /\ index' = ctx.index
    /\ queue' = ctx.queue
    /\ last' = Last(step, inst, action, targets, NoTask, ctx, receivers, FALSE)
    /\ UNCHANGED <<variant, registry, receivers, lifecycle>>

Setup ==
    /\ op = Idle
    /\ receivers' = DjangoSignalsMixin_setup(receivers)
    /\ lifecycle' = "setup"
    /\ last' = Last("setup", NoInst, "", {}, NoTask, Ctx(index, queue), receivers, FALSE)
    /\ UNCHANGED <<variant, registry, exists, links, index, queue, op>>

Teardown ==
    /\ op = Idle
    /\ receivers' = DjangoSignalsMixin_teardown(receivers)
    /\ lifecycle' = "teardown"
    /\ last' = Last("teardown", NoInst, "", {}, NoTask, Ctx(index, queue), receivers, FALSE)
    /\ UNCHANGED <<variant, registry, exists, links, index, queue, op>>

\* Model.save(): the row is written, then post_save is sent
Save(inst, fail) ==
    /\ op = Idle
    /\ LET ex == [exists EXCEPT ![Row(inst)] = TRUE]
           ctx == send(receivers["post_save"], variant, registry, Ctx(index, queue),
                       inst, "", Store(ex, links), fail)
       IN  /\ exists' = ex
           /\ Event("save", inst, "", {}, ctx)
    /\ UNCHANGED <<links, op>>

\* Model.delete(), first half: pre_delete is sent while the row is there; an
\* exception from a receiver ends the delete
DeleteBegin(inst, fail) ==
    /\ op = Idle
    /\ exists[Row(inst)]
    /\ LET ctx == send(receivers["pre_delete"], variant, registry, Ctx(index, queue),
                       inst, "", Store(exists, links), fail)
       IN  /\ op' = IF ctx.err = "none"
                    THEN [kind |-> "delete", inst |-> inst,
                          targets |-> Related(Store(exists, links), Row(inst))]
                    ELSE Idle
           /\ Event("pre_delete", inst, "",
                    Related(Store(exists, links), Row(inst)), ctx)
    /\ UNCHANGED <<exists, links>>

\* Model.delete(), second half: the row and its rows of the through table are
\* removed, then post_delete is sent
DeleteFinish(fail) ==
    /\ op.kind = "delete"
    /\ LET row == Row(op.inst)
           ex == [exists EXCEPT ![row] = FALSE]
           ln == links \ LinksOf(links, row)
           ctx == send(receivers["post_delete"], variant, registry, Ctx(index, queue),
                       op.inst, "", Store(ex, ln), fail)
       IN  /\ exists' = ex
           /\ links' = ln
           /\ Event("post_delete", op.inst, "", op.targets, ctx)
    /\ op' = Idle

M2MTargets(kind, row) ==
    LET st == Store(exists, links)
    IN  CASE kind = "add" ->
                 {ts \in SUBSET {r \in OtherSide(row) : exists[r]} :
                     ts # {} /\ ts \cap Related(st, row) = {}}
          [] kind = "remove" -> {ts \in SUBSET Related(st, row) : ts # {}}
          [] kind = "clear" -> {Related(st, row)}

\* instance.relation.add() / remove() / clear(), first half: m2m_changed is
\* sent with the pre_ action
M2MBegin(inst, kind, targets, fail) ==
    /\ op = Idle
    /\ exists[Row(inst)]
    /\ targets \in M2MTargets(kind, Row(inst))
    /\ LET action == "pre_" \o kind
           ctx == send(receivers["m2m_changed"], variant, registry, Ctx(index, queue),
                       inst, action, Store(exists, links), fail)
       IN  /\ op' = IF ctx.err = "none"
                    THEN [kind |-> kind, inst |-> inst, targets |-> targets]
                    ELSE Idle
           /\ Event("m2m_pre", inst, action, targets, ctx)
    /\ UNCHANGED <<exists, links>>

\* second half: the through table is changed, then m2m_changed is sent with
\* the post_ action
M2MFinish(fail) ==
    /\ op.kind \in {"add", "remove", "clear"}
    /\ LET row == Row(op.inst)
           ln == IF op.kind = "add"
                 THEN links \cup PairsOf(row, op.targets)
                 ELSE IF op.kind = "remove"
                      THEN links \ PairsOf(row, op.targets)
                      ELSE links \ LinksOf(links, row)
           action == "post_" \o op.kind
           ctx == send(receivers["m2m_changed"], variant, registry, Ctx(index, queue),
                       op.inst, action, Store(exists, ln), fail)
       IN  /\ links' = ln
           /\ Event("m2m_post", op.inst, action, op.targets, ctx)
    /\ op' = Idle
    /\ UNCHANGED exists

\* a worker executes a queued task; the queue may deliver the message again
ExecTask(t, fail, redeliver) ==
    /\ BagIn(t, queue)
    /\ LET ctx == RunTask(Ctx(index, queue), t, Store(exists, links), fail)
       IN  /\ index' = ctx.index
           /\ queue' = IF redeliver THEN queue ELSE queue (-) SetToBag({t})
           /\ last' = Last("task", NoInst, "", {}, t, ctx, receivers, redeliver)
    /\ UNCHANGED <<variant, registry, receivers, lifecycle, exists, links, op>>

Next ==
    \/ Setup
    \/ Teardown
    \/ \E inst \in Instances, fail \in SaveFails : Save(inst, fail)
    \/ \E inst \in Instances, fail \in DeleteFails : DeleteBegin(inst, fail)
    \/ \E fail \in DeleteFails : DeleteFinish(fail)
    \/ \E inst \in Instances, kind \in {"add", "remove", "clear"},
          targets \in SUBSET Rows, fail \in DeleteFails :
            M2MBegin(inst, kind, targets, fail)
    \/ \E fail \in SaveFails : M2MFinish(fail)
    \/ \E t \in BagToSet(queue), fail \in SaveFails, redeliver \in BOOLEAN :
            ExecTask(t, fail, redeliver)

Spec == Init /\ [][Next]_vars

(***************************************************************************)
(* Properties                                                              *)
(***************************************************************************)
Called(handler) == InSeq(handler, last.handlers)

\* call number i of the last step was registry.<name>(instance)
IsCall(i, name, inst) ==
    /\ i <= Len(last.calls)
    /\ last.calls[i].op = name
    /\ last.calls[i].inst = inst

RefTask(name, inst) ==
    Task(name, inst.pk, app_label_of(inst.cls), concrete_model(inst.cls))

SomeCallFailed == \E i \in 1..Len(last.calls) : last.calls[i].failed

\* C1 as stated: every synchronous handle_save(sender, instance) calls
\* registry.update(instance) once and then registry.update_related(instance)
\* once, and enqueues nothing.
C1_EveryCallIssuesBoth ==
    (variant = "realtime" /\ Called("handle_save")) =>
        /\ Len(last.calls) = 2
        /\ IsCall(1, "update", last.inst)
        /\ IsCall(2, "update_related", last.inst)
        /\ last.enq = <<>>
        /\ queue = EmptyBag

\* C1 amended: every synchronous handle_save(sender, instance) calls
\* registry.update(instance) once and enqueues nothing; when that call
\* returns, it calls registry.update_related(instance) once, after it; when
\* that call raises, the exception leaves handle_save and update_related is
\* not called.
C1_UpdateThenRelatedUnlessRaised ==
    (variant = "realtime" /\ Called("handle_save")) =>
        /\ IsCall(1, "update", last.inst)
        /\ IF last.calls[1].failed
           THEN Len(last.calls) = 1 /\ last.err = "IndexError"
           ELSE Len(last.calls) = 2 /\ IsCall(2, "update_related", last.inst)
        /\ last.enq = <<>>
        /\ queue = EmptyBag

C1_Witness ==
    /\ variant = "realtime"
    /\ last.step = "save"
    /\ Called("handle_save")
    /\ Len(last.calls) = 2
    /\ ~SomeCallFailed
    /\ index[Row(last.inst)].on

\* C2: a deferred handle_save for an instance whose concrete model is not in
\* the registry enqueues exactly registry_update_task and
\* registry_update_related_task, each with the primary key, the app label and
\* the model name and nothing else, and calls the registry not at all; under
\* the Celery processor update and update_related are called by tasks only.
C2_DeferredSaveEnqueuesTwoReferences ==
    variant = "celery" =>
        /\ (Called("handle_save") /\ concrete_model(last.inst.cls) \notin registry) =>
              /\ last.enq = <<RefTask("registry_update_task", last.inst),
                              RefTask("registry_update_related_task", last.inst)>>
              /\ \A i \in 1..Len(last.enq) :
                    DOMAIN last.enq[i] = {"task", "pk", "app_label", "model_name"}
              /\ \A i \in 1..Len(last.calls) :
                    last.calls[i].op \notin {"update", "update_related"}
        /\ \A i \in 1..Len(last.calls) :
              last.calls[i].op \in {"update", "update_related"} => last.step = "task"

C2_Witness ==
    /\ variant = "celery"
    /\ last.step = "save"
    /\ concrete_model(last.inst.cls) \notin registry
    /\ Len(last.enq) = 2
    /\ BagIn(RefTask("registry_update_task", last.inst), queue)
    /\ BagIn(RefTask("registry_update_related_task", last.inst), queue)
    /\ ~index[Row(last.inst)].on

\* C3: a deferred handle_save for an instance whose concrete model is in the
\* registry enqueues nothing and calls the registry not at all.
C3_RegisteredModelIsSkipped ==
    (variant = "celery" /\ Called("handle_save")
        /\ concrete_model(last.inst.cls) \in registry) =>
        /\ last.enq = <<>>
        /\ \A i \in 1..Len(last.calls) :
              last.calls[i].op \notin {"update", "update_related"}

C3_Witness ==
    /\ variant = "celery"
    /\ last.step = "save"
    /\ Called("handle_save")
    /\ concrete_model(last.inst.cls) \in registry
    /\ last.calls = <<>>
    /\ exists[Row(last.inst)]
    /\ ~index[Row(last.inst)].on

\* C4: handle_delete and handle_pre_delete call registry.delete and
\* registry.delete_related inline and enqueue nothing, under both processors;
\* every task in the queue is an update task or an update_related task, and a
\* step enqueues only through handle_save.
C4_DeletesAreNeverDeferred ==
    /\ Called("handle_delete") =>
          /\ Len(last.calls) = 1
          /\ IsCall(1, "delete", last.inst)
          /\ last.enq = <<>>
    /\ Called("handle_pre_delete") =>
          /\ Len(last.calls) = 1
          /\ IsCall(1, "delete_related", last.inst)
          /\ last.enq = <<>>
    /\ \A t \in BagToSet(queue) : t.task \in TaskNames
    /\ last.enq # <<>> => Called("handle_save")

C4_Witness ==
    /\ variant = "celery"
    /\ last.step = "post_delete"
    /\ Called("handle_delete")
    /\ IsCall(1, "delete", last.inst)
    /\ ~exists[Row(last.inst)]
    /\ queue # EmptyBag

PostActions == {"post_add", "post_remove", "post_clear"}

PreRemovals == {"pre_remove", "pre_clear"}

\* C5: handle_m2m_changed forwards post_add, post_remove and post_clear once
\* to the processor's handle_save (registry calls inline for the real-time
\* processor, tasks for the Celery processor), pre_remove and pre_clear once
\* to handle_pre_delete, and any other action to nothing.
C5_RelationChangeDispatch ==
    Called("handle_m2m_changed") =>
        /\ last.action \in PostActions =>
              /\ last.handlers = <<"handle_m2m_changed", "handle_save">>
              /\ variant = "realtime" =>
                    /\ IsCall(1, "update", last.inst)
                    /\ last.enq = <<>>
              /\ variant = "celery" =>
                    /\ last.calls = <<>>
                    /\ Len(last.enq) =
                          IF concrete_model(last.inst.cls) \in registry THEN 0 ELSE 2
        /\ last.action \in PreRemovals =>
              /\ last.handlers = <<"handle_m2m_changed", "handle_pre_delete">>
              /\ Len(last.calls) = 1
              /\ IsCall(1, "delete_related", last.inst)
              /\ last.enq = <<>>
        /\ last.action \notin PostActions \cup PreRemovals =>
              /\ last.handlers = <<"handle_m2m_changed">>
              /\ last.calls = <<>>
              /\ last.enq = <<>>

C5_Witness ==
    /\ last.step = "m2m_post"
    /\ last.action = "post_clear"
    /\ last.handlers = <<"handle_m2m_changed", "handle_save">>
    /\ last.targets # {}
    /\ variant = "realtime"
    /\ Len(last.calls) = 2

\* C6: handle_delete calls registry.delete(instance, raise_on_error=False)
\* and returns normally whether or not the index operation fails; a failure
\* of the index during a synchronous handle_save leaves handle_save as an
\* exception.
C6_DeleteFailuresAreSwallowed ==
    /\ Called("handle_delete") =>
          /\ Len(last.calls) = 1
          /\ IsCall(1, "delete", last.inst)
          /\ ~last.calls[1].raise_on_error
          /\ last.err = "none"
    /\ (variant = "realtime" /\ Called("handle_save") /\ SomeCallFailed) =>
          last.err = "IndexError"

C6_Witness ==
    /\ last.step = "post_delete"
    /\ Called("handle_delete")
    /\ IsCall(1, "delete", last.inst)
    /\ last.calls[1].failed
    /\ last.err = "none"
    /\ ~exists[Row(last.inst)]
    /\ index[Row(last.inst)].on

\* C7: registry.delete_related(record) is called only in the pre-phase of a
\* delete or of a relation removal or clear, while the record and the
\* relations about to go are still in the store; registry.delete(record) is
\* called only after the record is gone, and the save handling of post_remove
\* and post_clear only after the links are gone.
C7_DeleteRelatedBeforeRemoval ==
    LET row == Row(last.inst)
        st == Store(exists, links)
    IN  /\ \A i \in 1..Len(last.calls) :
              LET c == last.calls[i]
              IN  /\ c.op = "delete_related" =>
                        /\ last.step \in {"pre_delete", "m2m_pre"}
                        /\ c.present
                        /\ exists[row]
                        /\ c.rels = Related(st, row)
                        /\ last.targets \subseteq c.rels
                        /\ PairsOf(row, last.targets) \subseteq links
                  /\ c.op = "delete" =>
                        /\ last.step = "post_delete"
                        /\ ~c.present
                        /\ ~exists[row]
                        /\ LinksOf(links, row) = {}
        /\ (Called("handle_save") /\ last.action \in {"post_remove", "post_clear"}) =>
              /\ PairsOf(row, last.targets) \cap links = {}
              /\ \A i \in 1..Len(last.calls) :
                    last.calls[i].rels \cap last.targets = {}

C7_Witness ==
    /\ last.step = "m2m_pre"
    /\ last.action = "pre_clear"
    /\ IsCall(1, "delete_related", last.inst)
    /\ last.calls[1].rels # {}
    /\ op.kind = "clear"
    /\ PairsOf(Row(last.inst), last.targets) \subseteq links

\* the instance a task fetches, when its model resolves
TaskInstances(t) ==
    {[cls |-> m, pk |-> t.pk] : m \in get_model(t.app_label, t.model_name)}

TaskCall(t) ==
    IF t.task = "registry_update_task" THEN "update" ELSE "update_related"

\* C8: a task whose model does not resolve ends normally without a registry
\* call; a task whose model resolves and whose record is not in the store
\* ends with DoesNotExist and without a registry call; a task whose record is
\* found makes exactly one registry call, update or update_related after its
\* name, on the fetched record.
C8_TaskOutcomes ==
    last.step = "task" =>
        LET t == last.task
        IN  /\ TaskInstances(t) = {} =>
                  last.calls = <<>> /\ last.err = "none"
            /\ \A inst \in TaskInstances(t) :
                  IF exists[Row(inst)]
                  THEN /\ Len(last.calls) = 1
                       /\ IsCall(1, TaskCall(t), inst)
                       /\ last.calls[1].present
                       /\ last.err = IF last.calls[1].failed THEN "IndexError" ELSE "none"
                  ELSE last.calls = <<>> /\ last.err = "DoesNotExist"

C8_Witness ==
    /\ last.step = "task"
    /\ last.err = "DoesNotExist"
    /\ last.calls = <<>>
    /\ TaskInstances(last.task) # {}

AllTasks ==
    {Task(name, pk, app_label_of(cls), concrete_model(cls)) :
        name \in TaskNames, pk \in PKs, cls \in Classes}

\* the index after a worker has run task t on index idx, the store as it is
Ran(idx, t) == RunTask(Ctx(idx, queue), t, Store(exists, links), "none").index

FourBindings ==
    [s \in Signals |->
        CASE s = "post_save" -> <<"handle_save">>
          [] s = "post_delete" -> <<"handle_delete">>
          [] s = "m2m_changed" -> <<"handle_m2m_changed">>
          [] s = "pre_delete" -> <<"handle_pre_delete">>]

StoreSteps == {"save", "pre_delete", "post_delete", "m2m_pre", "m2m_post"}

\* C10: after construction and after every setup() exactly the four bindings
\* exist; after every teardown() none does, and then no save, delete or
\* relation change calls a handler, the registry or the queue; teardown()
\* with nothing connected changes nothing and raises nothing.
C10_SubscribedIffLastCallWasSetup ==
    /\ lifecycle = "setup" => receivers = FourBindings
    /\ lifecycle = "teardown" => receivers = NoReceivers
    /\ (lifecycle = "teardown" /\ last.step \in StoreSteps) =>
          /\ last.handlers = <<>>
          /\ last.calls = <<>>
          /\ last.enq = <<>>
    /\ (last.step = "teardown" /\ last.before = NoReceivers) =>
          /\ receivers = last.before
          /\ last.err = "none"

C10_Witness ==
    /\ lifecycle = "teardown"
    /\ last.step = "pre_delete"
    /\ last.handlers = <<>>
    /\ last.targets # {}
    /\ op.kind = "delete"

====
